---- MODULE Spec2Model ----
(***************************************************************************)
(* Model of the imgpkg `describe` command (pkg/imgpkg/cmd/describe.go):    *)
(* DescribeOptions.Run, validateFlags, bundleTextPrinter.Print and         *)
(* bundleTextPrinter.printerRec.                                           *)
(*                                                                         *)
(* A string that the program takes apart or builds (an image reference, a  *)
(* line of output) is a sequence of tokens, so that parsing a reference    *)
(* and indenting a line are computed and not assumed.  A line of output is *)
(* the token sequence the base UI finally receives: every IndentingUI      *)
(* wrapper it went through has put one "  " token in front of it.          *)
(***************************************************************************)
EXTENDS Integers, Sequences, FiniteSets

VARIABLES
  OutputType,     \* d.OutputType, the value of --output-type
  pc,             \* position in Run: "l57","l58","l63","l70","l74","Print","printerRec","done"
  err,            \* the local variable err of Run
  description,    \* the local variable description of Run
  resolved,       \* what api.DescribeBundle returned: [description, err], or NotCalled
  resolverCalls,  \* number of calls of api.DescribeBundle
  printCalls,     \* number of calls of bundleTextPrinter.Print
  stack,          \* call stack of printerRec: frames [description, logger, pc, i]
  out,            \* lines received by the base UI, in order
  result          \* what Run ended with: Running, Nil, an error, or Panic

vars == <<OutputType, pc, err, description, resolved, resolverCalls,
          printCalls, stack, out, result>>

----------------------------------------------------------------------------
(* Bounds of the model *)

\* most nodes below the root of a resolved tree
MaxNodes == 4
\* deepest nesting of a node below the root (children of the root are at 1)
MaxDepth == 3

----------------------------------------------------------------------------
(* Values *)

Nil == "<nil>"
Running == "<running>"
Panic == "panic: Internal consistency: expected reference to be a digest reference"
NotCalled == [called |-> FALSE]

\* describe.go:18
DescribeOutputType == <<"text", "yaml">>

\* values of --output-type tried: the flag is a free string (describe.go:51)
OutputTypes == {"text", "yaml", "", "json", "TEXT", "text,yaml"}

\* describe.go:90
ConfigError == "--output-type can only have the following values [text, yaml]"

\* errors api.DescribeBundle may return
ResolveErrors == {"fetch failed", "unauthorized"}

----------------------------------------------------------------------------
(* References: regname.ParseReference as called at describe.go:132 *)

Repositories == {"registry.io/bundle", "registry.io/img1", "registry.io/img2",
                 "my.registry.io/bundle1", "my.registry.io/bundle2"}
Tags == {"latest", "v1.0.0"}
Digests == {"sha256:aaaa", "sha256:d211", "sha256:f35a", "sha256:4c8b", "sha256:47ae"}

\* name.NewTag: repository, or repository ":" tag
NewTagOk(s) ==
  \/ Len(s) = 1 /\ s[1] \in Repositories
  \/ Len(s) = 3 /\ s[1] \in Repositories /\ s[2] = ":" /\ s[3] \in Tags

\* name.NewDigest: repository "@" digest
NewDigestOk(s) ==
  Len(s) = 3 /\ s[1] \in Repositories /\ s[2] = "@" /\ s[3] \in Digests

\* ParseReference tries NewTag, then NewDigest, and fails when both fail;
\* Identifier() is the tag (the default tag for a bare repository) or the digest
ParseReference(s) ==
  IF NewTagOk(s)
    THEN [err |-> Nil, Identifier |-> IF Len(s) = 3 THEN s[3] ELSE "latest"]
    ELSE IF NewDigestOk(s)
      THEN [err |-> Nil, Identifier |-> s[3]]
      ELSE [err |-> "could not parse reference", Identifier |-> ""]

DigestRef(repo, dig) == <<repo, "@", dig>>
TagRef(repo, tag) == <<repo, ":", tag>>

----------------------------------------------------------------------------
(* Description trees: api.BundleDescription, api.ImageInfo *)

ImageNodes ==
  { [Image |-> DigestRef("registry.io/img1", "sha256:4c8b"),
     Origin |-> DigestRef("registry.io/img1", "sha256:4c8b"),
     Annotations |-> {<<"kbld.carvel.dev/id", "my.registry.io/simple-application">>}],
    [Image |-> DigestRef("registry.io/img2", "sha256:47ae"),
     Origin |-> DigestRef("registry.io/img2", "sha256:47ae"),
     Annotations |-> {}] }

BundleRefs ==
  { [Image |-> DigestRef("registry.io/bundle", "sha256:d211"),
     Origin |-> DigestRef("my.registry.io/bundle1", "sha256:d211")],
    [Image |-> DigestRef("registry.io/bundle", "sha256:f35a"),
     Origin |-> DigestRef("my.registry.io/bundle2", "sha256:f35a")] }

\* references the root may carry: digest form, tag form, bare repository, unparsable
RootRefs ==
  { DigestRef("registry.io/bundle", "sha256:aaaa"),
    TagRef("registry.io/bundle", "v1.0.0"),
    <<"registry.io/bundle">>,
    <<"registry.io/bundle", "@", "v1.0.0">> }

EmptyContent == [Bundles |-> <<>>, Images |-> <<>>]

RECURSIVE Size(_)
RECURSIVE SeqSize(_)
\* number of nodes of a bundle node, itself included
Size(b) == 1 + SeqSize(b.Content.Bundles) + Len(b.Content.Images)
SeqSize(bs) == IF bs = <<>> THEN 0 ELSE Size(Head(bs)) + SeqSize(Tail(bs))

ImageSeqs(n) == UNION { [1..k -> ImageNodes] : k \in 0..n }

RECURSIVE Contents(_, _)
RECURSIVE BundleSeqs(_, _)

\* bundle nodes of at most n nodes whose children nest at most d levels
BundleNodes(d, n) ==
  IF n = 0 THEN {}
  ELSE { [Image |-> r.Image, Origin |-> r.Origin, Content |-> c] :
           r \in BundleRefs, c \in Contents(d, n - 1) }

\* sequences of bundle nodes of at most n nodes in total
BundleSeqs(d, n) ==
  {<<>>} \cup
  UNION { { <<b>> \o rest : rest \in BundleSeqs(d, n - Size(b)) } :
          b \in BundleNodes(d - 1, n) }

\* contents of at most n nodes nesting at most d levels
Contents(d, n) ==
  IF d = 0 \/ n = 0 THEN {EmptyContent}
  ELSE UNION { { [Bundles |-> bs, Images |-> is] :
                   is \in ImageSeqs(n - SeqSize(bs)) } :
               bs \in BundleSeqs(d, n) }

\* the trees api.DescribeBundle may return
Trees ==
  { [Image |-> r, Origin |-> r, Content |-> c] :
      r \in RootRefs, c \in Contents(MaxDepth, MaxNodes) }

\* the zero value of api.BundleDescription, returned along with an error
ZeroDescription == [Image |-> <<>>, Origin |-> <<>>, Content |-> EmptyContent]

----------------------------------------------------------------------------
(* validateFlags, describe.go:81-93 *)

RECURSIVE validateLoop(_, _, _)
\* the loop of lines 83-88: the first s of DescribeOutputType equal to ot, else ""
validateLoop(types, ot, outputType) ==
  IF types = <<>> THEN outputType
  ELSE IF Head(types) = ot THEN Head(types)
  ELSE validateLoop(Tail(types), ot, outputType)

validateFlagsAcceptsAll(ot) == Nil

validateFlagsEmptyOk(ot) ==
  IF ot # "" /\ validateLoop(DescribeOutputType, ot, "") = "" THEN ConfigError ELSE Nil

validateFlags(ot) ==
  IF validateLoop(DescribeOutputType, ot, "") = "" THEN ConfigError ELSE Nil

----------------------------------------------------------------------------
(* The UI: goui.NewIndentingUI and BeginLinef *)

\* a UI is the number of IndentingUI wrappers around the base UI p.ui
BaseUI == 0

NewIndentingUITwice(ui) == ui + 2

NewIndentingUI(ui) == ui + 1

RECURSIVE BeginLinef(_, _)
\* indentingUI.BeginLinef hands "  " + line to its parent; the base UI keeps the line
BeginLinef(ui, line) ==
  IF ui = BaseUI THEN line ELSE BeginLinef(ui - 1, <<"  ">> \o line)

----------------------------------------------------------------------------
(* The lines printerRec and Print format *)

\* describe.go:136
HeaderLine(identifier) == <<"Bundle SHA: ", identifier, "\n">>
\* describe.go:138
BlankLine == <<"\n">>
\* describe.go:143
LabelLine == <<"Images:\n">>

BundleLinesNoOrigin(b) ==
  << <<"Image: ">> \o b.Image \o <<"\n">>,
     <<"Type: Bundle\n">> >>

\* describe.go:146-148
BundleLines(b) ==
  << <<"Image: ">> \o b.Image \o <<"\n">>,
     <<"Type: Bundle\n">>,
     <<"Origin: ">> \o b.Origin \o <<"\n">> >>

\* describe.go:153-155
ImageLines(image) ==
  << <<"Image: ">> \o image.Image \o <<"\n">>,
     <<"Type: Image\n">>,
     <<"Origin: ">> \o image.Origin \o <<"\n">> >>

Reverse(s) == [i \in 1..Len(s) |-> s[Len(s) + 1 - i]]

RangeBundlesReversed(d) == Reverse(d.Content.Bundles)

\* describe.go:145, the sequence the first loop ranges over
RangeBundles(d) == d.Content.Bundles

\* describe.go:152, the sequence the second loop ranges over
RangeImages(d) == d.Content.Images

RecLoggerNested(indentLogger) == NewIndentingUI(indentLogger)

\* describe.go:149, the logger handed to the recursive call
RecLogger(indentLogger) == indentLogger

\* the lines as the base UI receives them when printed through ui
Emit(ui, lines) == [k \in 1..Len(lines) |-> BeginLinef(ui, lines[k])]

----------------------------------------------------------------------------
(* Run, describe.go:56-79 *)

ErrCheckNever(e) == FALSE

\* describe.go:58 and describe.go:70
ErrCheck(e) == e # Nil

Init ==
  /\ OutputType \in OutputTypes
  /\ pc = "l57"
  /\ err = Nil
  /\ description = ZeroDescription
  /\ resolved = NotCalled
  /\ resolverCalls = 0
  /\ printCalls = 0
  /\ stack = <<>>
  /\ out = <<>>
  /\ result = Running

\* describe.go:57
ValidateFlags ==
  /\ pc = "l57"
  /\ err' = validateFlags(OutputType)
  /\ pc' = "l58"
  /\ UNCHANGED <<OutputType, description, resolved, resolverCalls, printCalls,
                 stack, out, result>>

\* describe.go:58-60
ValidateReturn ==
  /\ pc = "l58"
  /\ IF ErrCheck(err)
       THEN pc' = "done" /\ result' = err
       ELSE pc' = "l63" /\ result' = result
  /\ UNCHANGED <<OutputType, err, description, resolved, resolverCalls,
                 printCalls, stack, out>>

\* describe.go:63-69, api.DescribeBundle returns a tree
DescribeBundleOk ==
  /\ pc = "l63"
  /\ \E t \in Trees :
       /\ description' = t
       /\ err' = Nil
       /\ resolved' = [called |-> TRUE, description |-> t, err |-> Nil]
  /\ resolverCalls' = resolverCalls + 1
  /\ pc' = "l70"
  /\ UNCHANGED <<OutputType, printCalls, stack, out, result>>

\* describe.go:63-69, api.DescribeBundle fails
DescribeBundleErr ==
  /\ pc = "l63"
  /\ \E e \in ResolveErrors :
       /\ description' = ZeroDescription
       /\ err' = e
       /\ resolved' = [called |-> TRUE, description |-> ZeroDescription, err |-> e]
  /\ resolverCalls' = resolverCalls + 1
  /\ pc' = "l70"
  /\ UNCHANGED <<OutputType, printCalls, stack, out, result>>

\* describe.go:70-72
ResolveReturn ==
  /\ pc = "l70"
  /\ IF ErrCheck(err)
       THEN pc' = "done" /\ result' = err
       ELSE pc' = "l74" /\ result' = result
  /\ UNCHANGED <<OutputType, err, description, resolved, resolverCalls,
                 printCalls, stack, out>>

\* describe.go:74-78
Dispatch ==
  /\ pc = "l74"
  /\ IF OutputType = "text"
       THEN /\ pc' = "Print"
            /\ printCalls' = printCalls + 1
            /\ result' = result
       ELSE /\ pc' = "done"
            /\ printCalls' = printCalls
            /\ result' = Nil
  /\ UNCHANGED <<OutputType, err, description, resolved, resolverCalls, stack, out>>

\* describe.go:130-139, up to the call of printerRec
PrinterPrint ==
  /\ pc = "Print"
  /\ LET bundleRef == ParseReference(description.Image) IN
       IF bundleRef.err # Nil
         THEN /\ pc' = "done"
              /\ result' = Panic
              /\ UNCHANGED <<stack, out>>
         ELSE /\ out' = out \o Emit(BaseUI, <<HeaderLine(bundleRef.Identifier), BlankLine>>)
              /\ stack' = << [description |-> description, logger |-> BaseUI,
                              pc |-> "l143", i |-> 1] >>
              /\ pc' = "printerRec"
              /\ result' = result
  /\ UNCHANGED <<OutputType, err, description, resolved, resolverCalls, printCalls>>

----------------------------------------------------------------------------
(* printerRec, describe.go:142-157; the top frame is the last of stack *)

Top == stack[Len(stack)]
Below == SubSeq(stack, 1, Len(stack) - 1)
unchangedByRec == <<OutputType, err, description, resolved, resolverCalls, printCalls>>

\* describe.go:143-144
RecLabel ==
  /\ pc = "printerRec"
  /\ Top.pc = "l143"
  /\ out' = out \o Emit(Top.logger, <<LabelLine>>)
  /\ stack' = Below \o << [Top EXCEPT !.pc = "l145", !.i = 1] >>
  /\ UNCHANGED <<pc, result>>
  /\ UNCHANGED unchangedByRec

\* describe.go:145-150, one iteration: three lines and the recursive call
RecBundle ==
  /\ pc = "printerRec"
  /\ Top.pc = "l145"
  /\ Top.i <= Len(RangeBundles(Top.description))
  /\ LET indentLogger == NewIndentingUI(Top.logger)
         b == RangeBundles(Top.description)[Top.i]
     IN /\ out' = out \o Emit(indentLogger, BundleLines(b))
        /\ stack' = Below \o << [Top EXCEPT !.i = Top.i + 1],
                                [description |-> b, logger |-> RecLogger(indentLogger),
                                 pc |-> "l143", i |-> 1] >>
  /\ UNCHANGED <<pc, result>>
  /\ UNCHANGED unchangedByRec

\* describe.go:145, the first loop ends
RecBundlesDone ==
  /\ pc = "printerRec"
  /\ Top.pc = "l145"
  /\ Top.i > Len(RangeBundles(Top.description))
  /\ stack' = Below \o << [Top EXCEPT !.pc = "l152", !.i = 1] >>
  /\ UNCHANGED <<pc, result, out>>
  /\ UNCHANGED unchangedByRec

\* describe.go:152-156, one iteration
RecImage ==
  /\ pc = "printerRec"
  /\ Top.pc = "l152"
  /\ Top.i <= Len(RangeImages(Top.description))
  /\ LET indentLogger == NewIndentingUI(Top.logger)
         image == RangeImages(Top.description)[Top.i]
     IN out' = out \o Emit(indentLogger, ImageLines(image))
  /\ stack' = Below \o << [Top EXCEPT !.i = Top.i + 1] >>
  /\ UNCHANGED <<pc, result>>
  /\ UNCHANGED unchangedByRec

\* describe.go:157, printerRec returns; the outermost return ends Print and Run (line 78)
RecReturn ==
  /\ pc = "printerRec"
  /\ Top.pc = "l152"
  /\ Top.i > Len(RangeImages(Top.description))
  /\ stack' = Below
  /\ IF Below = <<>>
       THEN pc' = "done" /\ result' = Nil
       ELSE pc' = pc /\ result' = result
  /\ UNCHANGED out
  /\ UNCHANGED unchangedByRec

Next ==
  \/ ValidateFlags
  \/ ValidateReturn
  \/ DescribeBundleOk
  \/ DescribeBundleErr
  \/ ResolveReturn
  \/ Dispatch
  \/ PrinterPrint
  \/ RecLabel
  \/ RecBundle
  \/ RecBundlesDone
  \/ RecImage
  \/ RecReturn

Spec == Init /\ [][Next]_vars

----------------------------------------------------------------------------
(* Reading the output back *)

RECURSIVE Indent(_)
\* number of two-space units in front of a line
Indent(line) ==
  IF line # <<>> /\ Head(line) = "  " THEN 1 + Indent(Tail(line)) ELSE 0

Strip(line) == SubSeq(line, Indent(line) + 1, Len(line))
Spaces(line) == 2 * Indent(line)

IsHeaderLine(l) == Len(l) = 3 /\ l[1] = "Bundle SHA: " /\ l[3] = "\n"
IsLabelLine(l) == Strip(l) = <<"Images:\n">>
IsImageLine(l) == Len(Strip(l)) >= 2 /\ Strip(l)[1] = "Image: "
IsOriginLine(l) == Len(Strip(l)) >= 2 /\ Strip(l)[1] = "Origin: "
IsTypeBundleLine(l) == Strip(l) = <<"Type: Bundle\n">>
IsTypeImageLine(l) == Strip(l) = <<"Type: Image\n">>
IsAnnotationsLine(l) == Strip(l) = <<"Annotations:\n">>

\* the %s of an `Image: %s\n` or `Origin: %s\n` line
Arg(l) == SubSeq(Strip(l), 2, Len(Strip(l)) - 1)

Count(o, P(_)) == Cardinality({i \in 1..Len(o) : P(o[i])})

ValidOutputTypes == {"text", "yaml"}
ResolvedOk == resolved.called /\ resolved.err = Nil
ResolvedErr == resolved.called /\ resolved.err # Nil

\* Run has returned nil after the text renderer ran to its end
Rendered == pc = "done" /\ printCalls = 1 /\ result = Nil

\* the nodes printed, in order of their `Image:` lines: <<kind line, reference>>
PrintedNodes(o) ==
  LET idx == {i \in 1..Len(o) : IsImageLine(o[i])}
      RECURSIVE From(_)
      From(i) ==
        IF i > Len(o) THEN <<>>
        ELSE IF i \in idx
          THEN << <<IF i < Len(o) THEN Strip(o[i + 1]) ELSE <<>>, Arg(o[i])>> >> \o From(i + 1)
          ELSE From(i + 1)
  IN From(1)

RECURSIVE NodeOrder(_)
RECURSIVE BundleSeqOrder(_)
\* the order the claim C5 describes: child bundles, each with its whole body, then images
NodeOrder(d) ==
  BundleSeqOrder(d.Content.Bundles) \o
  [i \in 1..Len(d.Content.Images) |-> << <<"Type: Image\n">>, d.Content.Images[i].Image >>]
BundleSeqOrder(bs) ==
  IF bs = <<>> THEN <<>>
  ELSE << << <<"Type: Bundle\n">>, Head(bs).Image >> >> \o NodeOrder(Head(bs))
       \o BundleSeqOrder(Tail(bs))

RECURSIVE CountBundles(_)
RECURSIVE CountBundlesSeq(_)
\* N: bundle nodes below d, per occurrence
CountBundles(d) == CountBundlesSeq(d.Content.Bundles)
CountBundlesSeq(bs) ==
  IF bs = <<>> THEN 0 ELSE 1 + CountBundles(Head(bs)) + CountBundlesSeq(Tail(bs))

RECURSIVE CountImages(_)
RECURSIVE CountImagesSeq(_)
\* M: image nodes below d, per occurrence
CountImages(d) == Len(d.Content.Images) + CountImagesSeq(d.Content.Bundles)
CountImagesSeq(bs) ==
  IF bs = <<>> THEN 0 ELSE CountImages(Head(bs)) + CountImagesSeq(Tail(bs))

RECURSIVE CountAnnotated(_)
RECURSIVE CountAnnotatedSeq(_)
\* image nodes below d with non-empty annotations, per occurrence
CountAnnotated(d) ==
  Cardinality({i \in 1..Len(d.Content.Images) : d.Content.Images[i].Annotations # {}})
  + CountAnnotatedSeq(d.Content.Bundles)
CountAnnotatedSeq(bs) ==
  IF bs = <<>> THEN 0 ELSE CountAnnotated(Head(bs)) + CountAnnotatedSeq(Tail(bs))

RECURSIVE NodeDepths(_, _)
RECURSIVE BundleSeqDepths(_, _)
\* depth from the root of every node below d, in print order; d's children are at k
NodeDepths(d, k) ==
  BundleSeqDepths(d.Content.Bundles, k) \o [i \in 1..Len(d.Content.Images) |-> k]
BundleSeqDepths(bs, k) ==
  IF bs = <<>> THEN <<>>
  ELSE <<k>> \o NodeDepths(Head(bs), k + 1) \o BundleSeqDepths(Tail(bs), k)

\* indentation of the printed nodes, in order of their `Image:` lines
PrintedIndents(o) ==
  LET RECURSIVE From(_)
      From(i) ==
        IF i > Len(o) THEN <<>>
        ELSE IF IsImageLine(o[i]) THEN <<Indent(o[i])>> \o From(i + 1)
        ELSE From(i + 1)
  IN From(1)

RECURSIVE Layout(_, _, _)
RECURSIVE BundleSeqLayout(_, _, _)
\* spaces in front of every line of the body of d: the `Images:` label at `label`
\* spaces, the lines of d's children 2 further, and the label of a child bundle
\* `off` spaces further than that child's own lines
Layout(d, label, off) ==
  <<label>> \o BundleSeqLayout(d.Content.Bundles, label + 2, off)
  \o [i \in 1..(3 * Len(d.Content.Images)) |-> label + 2]
BundleSeqLayout(bs, k, off) ==
  IF bs = <<>> THEN <<>>
  ELSE <<k, k, k>> \o Layout(Head(bs), k + off, off) \o BundleSeqLayout(Tail(bs), k, off)

\* spaces in front of every line after the header and the blank line
BodySpaces(o) == [i \in 1..(Len(o) - 2) |-> Spaces(o[i + 2])]

----------------------------------------------------------------------------
(* Claims *)

\* C1: an output type outside the valid enumeration makes Run return the
\* configuration error with the Resolver never called and no line emitted;
\* the Resolver is called only once validation has accepted the output type.
C1_ValidationBeforeResolver ==
  /\ OutputType \notin ValidOutputTypes =>
       /\ resolverCalls = 0
       /\ printCalls = 0
       /\ out = <<>>
       /\ pc = "done" => result = ConfigError
  /\ resolverCalls > 0 => (pc \notin {"l57", "l58"} /\ OutputType \in ValidOutputTypes)

C1_Witness ==
  pc = "done" /\ OutputType = "json" /\ result = ConfigError /\ resolverCalls = 0

\* C2: validateFlags returns nil exactly for "text" and "yaml" and, for every
\* other string, the empty string included, the exact documented message.
C2_ValidateFlags ==
  pc = "l58" =>
    err = IF OutputType \in {"text", "yaml"}
            THEN Nil
            ELSE "--output-type can only have the following values [text, yaml]"

C2_Witness ==
  /\ pc = "l58" /\ OutputType = ""
  /\ err = "--output-type can only have the following values [text, yaml]"

\* C3: no line is emitted and the renderer is not invoked before the Resolver
\* has returned a tree; when the Resolver returns an error, Run returns that
\* same error, the renderer is never invoked and nothing is ever emitted.
C3_ResolveErrorNoOutput ==
  /\ (out # <<>> \/ printCalls > 0 \/ stack # <<>>) => ResolvedOk
  /\ ResolvedErr =>
       /\ out = <<>> /\ printCalls = 0 /\ stack = <<>>
       /\ pc \in {"l70", "done"}
       /\ pc = "done" => result = resolved.err

C3_Witness ==
  pc = "done" /\ ResolvedErr /\ result = "fetch failed" /\ OutputType = "text"

\* the Resolver kept its contract: the root reference is digest-form
WellFormedRoot == NewDigestOk(description.Image)

\* C4 (as claimed): for both "text" and "yaml", once validation and resolution
\* have succeeded (the tree's root reference being digest-form), Run returns nil
\* with at least the header line written.
C4_SuccessWritesOutput ==
  (pc = "done" /\ OutputType \in ValidOutputTypes /\ ResolvedOk /\ WellFormedRoot) =>
    /\ result = Nil
    /\ Len(out) >= 1
    /\ IsHeaderLine(out[1])

\* C5: the nodes are printed child bundles first, each followed at once by its
\* whole recursive body, then child images, both groups in the input order.
C5_SiblingOrder ==
  Rendered => PrintedNodes(out) = NodeOrder(description)

C5_Witness ==
  /\ Rendered
  /\ Len(description.Content.Bundles) >= 2
  /\ description.Content.Bundles[1].Image[3] = "sha256:f35a"
  /\ description.Content.Bundles[1].Content.Images # <<>>
  /\ description.Content.Bundles[2].Image[3] = "sha256:d211"
  /\ Len(description.Content.Images) >= 1

\* C6: the text has exactly N `Type: Bundle` lines and M `Type: Image` lines,
\* each right after an `Image:` line and right before the `Origin:` line of the
\* same node; a digest occurring under two parents is printed once per occurrence.
C6_TypeLineCounts ==
  Rendered =>
    /\ Count(out, IsTypeBundleLine) = CountBundles(description)
    /\ Count(out, IsTypeImageLine) = CountImages(description)
    /\ \A i \in 1..Len(out) :
         (IsTypeBundleLine(out[i]) \/ IsTypeImageLine(out[i])) =>
           /\ i > 1 /\ i < Len(out)
           /\ IsImageLine(out[i - 1]) /\ IsOriginLine(out[i + 1])
           /\ Indent(out[i - 1]) = Indent(out[i]) /\ Indent(out[i + 1]) = Indent(out[i])
           /\ \E n \in IF IsTypeBundleLine(out[i])
                         THEN BundleRefs
                         ELSE {[Image |-> m.Image, Origin |-> m.Origin] : m \in ImageNodes} :
                Arg(out[i - 1]) = n.Image /\ Arg(out[i + 1]) = n.Origin

C6_Witness ==
  /\ Rendered
  /\ Len(description.Content.Bundles) = 2
  /\ \A k \in 1..2 :
       /\ Len(description.Content.Bundles[k].Content.Images) = 1
       /\ description.Content.Bundles[k].Content.Images[1].Image[3] = "sha256:47ae"
  /\ description.Content.Bundles[1].Image # description.Content.Bundles[2].Image
  /\ Cardinality({i \in 1..Len(out) :
                    IsImageLine(out[i]) /\ Arg(out[i])[3] = "sha256:47ae"}) = 2

\* C7 (as claimed): every image node with non-empty annotations gets an
\* `Annotations:` block, and an image node without annotations gets none: the
\* text has as many `Annotations:` lines as the tree has annotated image nodes.
C7_AnnotationsBlock ==
  (Rendered /\ WellFormedRoot) =>
    Count(out, IsAnnotationsLine) = CountAnnotated(description)

\* C8 (as claimed): rendering a root whose reference is not digest-form ends in
\* the internal-consistency fault with no line emitted, and a `Bundle SHA:`
\* header is emitted only for a digest-form root reference.
C8_NonDigestRootPanics ==
  /\ (pc = "done" /\ printCalls > 0 /\ ~NewDigestOk(description.Image)) =>
       (result = Panic /\ out = <<>>)
  /\ (out # <<>> /\ IsHeaderLine(out[1])) => NewDigestOk(description.Image)

====
